---- MODULE Spec2Model ----
(***************************************************************************)
(* Model of the stream-based viseme classifier of                          *)
(* src/src/utils/webrtcLipsync.ts (createWebRTCLipsyncAnalyzer) and of the *)
(* chatbot store that creates and connects it (src/unnamed/part_018).      *)
(*                                                                         *)
(* Number representation.  The code computes in IEEE doubles; the model    *)
(* computes in exact integers:                                             *)
(*   - a band energy  average(slice)/255       is kept as  average(slice)  *)
(*     (unit 1/255);                                                       *)
(*   - a volume  average(bandEnergies)  is kept as the sum of the 7 band   *)
(*     values (unit 1/(255*7) = 1/VolUnit);                                *)
(*   - an averaged feature  sum/count  is kept as the sum together with    *)
(*     the denominator "den" (count, or 1 for an empty history), and every *)
(*     comparison against a threshold is cross-multiplied;                 *)
(*   - a centroid is kept in whole Hz (truncated);                         *)
(*   - a score is kept in tenths, an adjusted score in 1/10000;            *)
(*   - performance.now() is the integer clock "now" (milliseconds).        *)
(* A spectrum frame (the Uint8Array filled by getByteFrequencyData) is     *)
(* piecewise constant: one byte level below the first band, one per band   *)
(* slice, one above the last band, so that average(slice) is the level.    *)
(***************************************************************************)
EXTENDS Integers, Sequences, FiniteSets, TLC

(***************************************************************************)
(* Program constants                                                       *)
(***************************************************************************)
fftSize == 2048
frequencyBinCount == fftSize \div 2
historySize == 10
maxVisemeDuration == 100
defaultSampleRate == 44100
ByteMax == 255

\* VISEMES in the key order of the scores object (computeVisemeScores)
Visemes == << "sil", "PP", "FF", "TH", "DD", "kk", "CH", "SS", "nn", "RR",
              "aa", "E", "I", "O", "U" >>

VisemeSet == { Visemes[i] : i \in 1..Len(Visemes) }

VisemeIndex(v) == CHOOSE i \in 1..Len(Visemes) : Visemes[i] = v

\* the category table with TH among the plosives
VISEME_CATEGORIES_thPlosive ==
  [ v \in VisemeSet |->
      CASE v = "sil" -> "silence"
        [] v \in {"PP", "DD", "kk", "nn", "TH"} -> "plosive"
        [] v \in {"FF", "CH", "SS", "RR"} -> "fricative"
        [] OTHER -> "vowel" ]

VISEME_CATEGORIES ==
  [ v \in VisemeSet |->
      CASE v = "sil" -> "silence"
        [] v \in {"PP", "DD", "kk", "nn"} -> "plosive"
        [] v \in {"FF", "TH", "CH", "SS", "RR"} -> "fricative"
        [] OTHER -> "vowel" ]

\* the band table with a gap between band 2 and band 3
bands_gap == << [start |-> 50,   end |-> 200],
                [start |-> 200,  end |-> 400],
                [start |-> 400,  end |-> 700],
                [start |-> 800,  end |-> 1500],
                [start |-> 1500, end |-> 2500],
                [start |-> 2500, end |-> 4000],
                [start |-> 4000, end |-> 8000] >>

bands == << [start |-> 50,   end |-> 200],
            [start |-> 200,  end |-> 400],
            [start |-> 400,  end |-> 800],
            [start |-> 800,  end |-> 1500],
            [start |-> 1500, end |-> 2500],
            [start |-> 2500, end |-> 4000],
            [start |-> 4000, end |-> 8000] >>

NumBands == Len(bands)
\* a volume is kept in 1/VolUnit: the sum of the band values, each in 1/ByteMax
VolUnit == ByteMax * NumBands

(***************************************************************************)
(* Bounds of the model                                                     *)
(***************************************************************************)
\* non-silent snapshots admitted per session in the lifecycle specifications
MaxPushed == 3
\* the same, in the history specification (must exceed historySize)
MaxPushedLong == 14
\* the same, in the gate specification (a vowel frame, then ten of band 1)
MaxPushedGate == 11
\* the clock advances by ClockStep ms, at most MaxClockSteps times
ClockStep == 250
MaxClockSteps == 3
\* consecutive zero-frame ticks counted in a run
MaxZeroRun == 3

SampleRates == {44100, 48000}

(***************************************************************************)
(* Arithmetic helpers                                                      *)
(***************************************************************************)
Min(x, y) == IF x < y THEN x ELSE y
Max(x, y) == IF x > y THEN x ELSE y
Abs(x) == IF x < 0 THEN -x ELSE x

RECURSIVE GCD(_, _)
GCD(x, y) == IF y = 0 THEN x ELSE GCD(y, x % y)

RECURSIVE SumSeq(_)
SumSeq(s) == IF s = << >> THEN 0 ELSE Head(s) + SumSeq(Tail(s))

\* Math.round(hz / binWidth) with binWidth = rate / fftSize, for hz >= 0
RoundBin(hz, rate) == (2 * hz * fftSize + rate) \div (2 * rate)

\* the comparison "<" taken as "<="
LT_orEqual(num, den, unit, t) == 100 * num <= t * unit * den

\* num/den > t/100 and num/den < t/100, for a quantity kept in 1/unit
GT(num, den, unit, t) == 100 * num > t * unit * den
LT(num, den, unit, t) == 100 * num < t * unit * den

(***************************************************************************)
(* Spectrum frames                                                         *)
(***************************************************************************)
Frame(low, lv, high) == [low |-> low, bands |-> lv, high |-> high]

ZeroFrame == Frame(0, <<0, 0, 0, 0, 0, 0, 0>>, 0)
\* a loud frame shaped like a mid front vowel with a bright residue
FrameA == Frame(0, <<150, 0, 153, 77, 51, 0, 0>>, 4)
\* a loud frame shaped like a mid front vowel with flat upper formants
FrameB == Frame(0, <<0, 0, 153, 128, 102, 0, 0>>, 0)
\* a frame with energy in band 1 (200-400 Hz) only
FrameC == Frame(0, <<0, 200, 0, 0, 0, 0, 0>>, 0)

Frames == {ZeroFrame, FrameA, FrameB}
LoudFrames == {FrameA, FrameB}
GateFrames == {FrameA, FrameC}

startBin(i, rate) == RoundBin(bands[i].start, rate)
endBin(i, rate) == Min(RoundBin(bands[i].end, rate), frequencyBinCount - 1)

\* the constant pieces of dataArray: <<first bin, one past last bin, level>>
Pieces(frame, rate) ==
  << <<0, startBin(1, rate), frame.low>> >>
  \o [ i \in 1..NumBands |-> <<startBin(i, rate), endBin(i, rate), frame.bands[i]>> ]
  \o << <<endBin(NumBands, rate), frequencyBinCount, frame.high>> >>

\* sum of dataArray[i] and of i * dataArray[i] over all bins
PieceLen(p) == Max(p[2] - p[1], 0)
PieceIdxSum(p) == IF p[2] > p[1] THEN ((p[1] + p[2] - 1) * (p[2] - p[1])) \div 2 ELSE 0

ByteSum(frame, rate) ==
  LET ps == Pieces(frame, rate)
  IN SumSeq([ k \in 1..Len(ps) |-> ps[k][3] * PieceLen(ps[k]) ])

WeightedByteSum(frame, rate) ==
  LET ps == Pieces(frame, rate)
  IN SumSeq([ k \in 1..Len(ps) |-> ps[k][3] * PieceIdxSum(ps[k]) ])

\* average(Array.from(dataArray.slice(startBin, endBin))), 0 for an empty slice
average(frame, i, rate) ==
  IF endBin(i, rate) > startBin(i, rate) THEN frame.bands[i] ELSE 0

\* centroid = weightedSum / totalEnergy in Hz, with freq = i * binWidth
Centroid(frame, rate) ==
  LET t == ByteSum(frame, rate)
      w == WeightedByteSum(frame, rate)
      g == GCD(rate, fftSize)
      meanBin100 == (w \div t) * 100 + ((w % t) * 100) \div t
  IN IF t > 0 THEN (meanBin100 * (rate \div g)) \div (100 * (fftSize \div g)) ELSE 0

(***************************************************************************)
(* The analyzer: the closure state of createWebRTCLipsyncAnalyzer, with    *)
(* the part of the Web Audio graph it creates (edges, openContexts).       *)
(* binWidth is sampleRate / fftSize throughout and is not kept apart.      *)
(***************************************************************************)
NewAnalyzer ==
  [ audioContext |-> FALSE, analyser |-> FALSE, sourceNode |-> FALSE,
    dataArray |-> FALSE,
    connected |-> FALSE, currentViseme |-> "sil", visemeStartTime |-> 0,
    history |-> << >>, sampleRate |-> defaultSampleRate,
    edges |-> {}, openContexts |-> 0 ]

\* node.disconnect(): removes every outgoing connection of the node
NodeDisconnect(es, node) == { e \in es : e[1] # node }

\* disconnect without "currentViseme = VISEMES.sil"
disconnect_keepsViseme(a) ==
  [a EXCEPT
     !.edges = NodeDisconnect(
                 IF a.sourceNode THEN NodeDisconnect(@, "source") ELSE @,
                 IF a.analyser THEN "analyser" ELSE "none"),
     !.sourceNode = FALSE, !.analyser = FALSE,
     !.openContexts = IF a.audioContext THEN @ - 1 ELSE @,
     !.audioContext = FALSE, !.dataArray = FALSE, !.connected = FALSE,
     !.history = << >>]

\* disconnect without "history.length = 0"
disconnect_keepsHistory(a) ==
  [a EXCEPT
     !.edges = NodeDisconnect(
                 IF a.sourceNode THEN NodeDisconnect(@, "source") ELSE @,
                 IF a.analyser THEN "analyser" ELSE "none"),
     !.sourceNode = FALSE, !.analyser = FALSE,
     !.openContexts = IF a.audioContext THEN @ - 1 ELSE @,
     !.audioContext = FALSE, !.dataArray = FALSE, !.connected = FALSE,
     !.currentViseme = "sil"]

\* disconnect that closes the audio context without the null check
disconnect_unguardedClose(a) ==
  [a EXCEPT
     !.edges = NodeDisconnect(
                 IF a.sourceNode THEN NodeDisconnect(@, "source") ELSE @,
                 IF a.analyser THEN "analyser" ELSE "none"),
     !.sourceNode = FALSE, !.analyser = FALSE,
     !.openContexts = @ - 1,
     !.audioContext = FALSE, !.dataArray = FALSE, !.connected = FALSE,
     !.currentViseme = "sil", !.history = << >>]

\* disconnect that drops the audio context without closing it
disconnect_noClose(a) ==
  [a EXCEPT
     !.edges = NodeDisconnect(
                 IF a.sourceNode THEN NodeDisconnect(@, "source") ELSE @,
                 IF a.analyser THEN "analyser" ELSE "none"),
     !.sourceNode = FALSE, !.analyser = FALSE,
     !.audioContext = FALSE, !.dataArray = FALSE, !.connected = FALSE,
     !.currentViseme = "sil", !.history = << >>]

disconnect(a) ==
  [a EXCEPT
     !.edges = NodeDisconnect(
                 IF a.sourceNode THEN NodeDisconnect(@, "source") ELSE @,
                 IF a.analyser THEN "analyser" ELSE "none"),
     !.sourceNode = FALSE,
     !.analyser = FALSE,
     !.openContexts = IF a.audioContext THEN @ - 1 ELSE @,
     !.audioContext = FALSE,
     !.dataArray = FALSE,
     !.connected = FALSE,
     !.currentViseme = "sil",
     !.history = << >>]

isConnected(a) == a.connected

\* the steps of connectStream that can throw
ConnectFailures == {"AudioContext", "createAnalyser", "createMediaStreamSource"}

\* the try block with the analyser also connected to the destination
connectTry_toDestination(a, fail, rate, t) ==
  IF fail \in ConnectFailures THEN a
  ELSE [a EXCEPT !.audioContext = TRUE, !.openContexts = @ + 1,
                 !.analyser = TRUE, !.sourceNode = TRUE,
                 !.edges = @ \cup {<<"source", "analyser">>,
                                   <<"analyser", "destination">>},
                 !.dataArray = TRUE, !.sampleRate = rate,
                 !.connected = TRUE, !.history = << >>, !.visemeStartTime = t]

\* the try block of connectStream up to the step that throws (fail), or whole
connectTry(a, fail, rate, t) ==
  LET c1 == [a EXCEPT !.audioContext = TRUE, !.openContexts = @ + 1]
      c2 == [c1 EXCEPT !.analyser = TRUE]
      c3 == [c2 EXCEPT !.sourceNode = TRUE]
      c4 == [c3 EXCEPT !.edges = @ \cup {<<"source", "analyser">>}]
      c5 == [c4 EXCEPT !.dataArray = TRUE, !.sampleRate = rate]
  IN CASE fail = "AudioContext" -> a
       [] fail = "createAnalyser" -> c1
       [] fail = "createMediaStreamSource" -> c2
       [] OTHER -> [c5 EXCEPT !.connected = TRUE, !.history = << >>,
                              !.visemeStartTime = t]

\* connectStream without "if (connected) disconnect()"
connectStream_noTeardown(a, fail, rate, t) ==
  IF fail \in ConnectFailures
    THEN disconnect(connectTry(a, fail, rate, t))
    ELSE connectTry(a, fail, rate, t)

\* connectStream whose catch block only logs
connectStream_noCleanup(a, fail, rate, t) ==
  connectTry(IF a.connected THEN disconnect(a) ELSE a, fail, rate, t)

connectStream(a, fail, rate, t) ==
  LET a0 == IF a.connected THEN disconnect(a) ELSE a
      a1 == connectTry(a0, fail, rate, t)
  IN IF fail \in ConnectFailures THEN disconnect(a1) ELSE a1

(***************************************************************************)
(* Feature extraction and history                                          *)
(***************************************************************************)
\* the history update dropping the newest snapshot instead of the oldest
pushHistory_evictNewest(h, features, totalEnergy) ==
  IF totalEnergy > 0 /\ Len(h) < historySize THEN Append(h, features) ELSE h

\* the history update without the test of totalEnergy
pushHistory_always(h, features, totalEnergy) ==
  IF Len(h) + 1 > historySize THEN Tail(Append(h, features))
                              ELSE Append(h, features)

\* "update history": push when totalEnergy > 0, shift when over historySize
pushHistory(h, features, totalEnergy) ==
  IF totalEnergy > 0
    THEN IF Len(h) + 1 > historySize THEN Tail(Append(h, features))
                                     ELSE Append(h, features)
    ELSE h

\* extractFeatures taking the deltas against the newest stored snapshot
extractFeatures_deltaAfterPush(a, frame) ==
  LET rate == a.sampleRate
      bandEnergies == [ i \in 1..NumBands |-> average(frame, i, rate) ]
      totalEnergy == ByteSum(frame, rate)
      centroid == Centroid(frame, rate)
      volume == SumSeq(bandEnergies)
      h == a.history
      deltaBands == [ i \in 1..NumBands |->
                        IF Len(h) < 1 THEN 0
                        ELSE bandEnergies[i] - h[Len(h)].bands[i] ]
      features == [ bands |-> bandEnergies, deltaBands |-> deltaBands,
                    volume |-> volume, centroid |-> centroid ]
  IN [ features |-> features, totalEnergy |-> totalEnergy,
       history |-> pushHistory(h, features, totalEnergy) ]

\* the part of extractFeatures after the null check; returns the features,
\* the total energy (in 1/ByteMax) and the updated history
extractFeatures(a, frame) ==
  LET rate == a.sampleRate
      bandEnergies == [ i \in 1..NumBands |-> average(frame, i, rate) ]
      totalEnergy == ByteSum(frame, rate)
      centroid == Centroid(frame, rate)
      volume == SumSeq(bandEnergies)
      h == a.history
      deltaBands == [ i \in 1..NumBands |->
                        IF Len(h) < 2 THEN 0
                        ELSE bandEnergies[i] - h[Len(h) - 1].bands[i] ]
      features == [ bands |-> bandEnergies, deltaBands |-> deltaBands,
                    volume |-> volume, centroid |-> centroid ]
  IN [ features |-> features, totalEnergy |-> totalEnergy,
       history |-> pushHistory(h, features, totalEnergy) ]

\* the averages divided by the capacity of the history
getAveragedFeatures_byCapacity(h) ==
  LET count == Len(h)
  IN [ volume |-> SumSeq([ k \in 1..count |-> h[k].volume ]),
       centroid |-> SumSeq([ k \in 1..count |-> h[k].centroid ]),
       bands |-> [ i \in 1..NumBands |-> SumSeq([ k \in 1..count |-> h[k].bands[i] ]) ],
       deltaBands |-> [ i \in 1..NumBands |-> 0 ],
       den |-> historySize ]

\* sums over the history with the divisor den (count, or 1 when count = 0)
getAveragedFeatures(h) ==
  LET count == Len(h)
  IN [ volume |-> SumSeq([ k \in 1..count |-> h[k].volume ]),
       centroid |-> SumSeq([ k \in 1..count |-> h[k].centroid ]),
       bands |-> [ i \in 1..NumBands |-> SumSeq([ k \in 1..count |-> h[k].bands[i] ]) ],
       deltaBands |-> [ i \in 1..NumBands |-> 0 ],
       den |-> IF count > 0 THEN count ELSE 1 ]

(***************************************************************************)
(* Scoring.  current is a features record (denominator 1), averaged is the *)
(* result of getAveragedFeatures (denominator averaged.den); volumeDelta   *)
(* and centroidDelta are numerators over averaged.den.  Scores in tenths.  *)
(***************************************************************************)
ZeroScores == [ v \in VisemeSet |-> 0 ]

\* the plosive adjustment without the penalty for a flat volume
plosiveScoring_noPenalty(averaged, volumeDelta, centroidDelta) ==
    (IF LT(averaged.volume, averaged.den, VolUnit, 20) THEN 2 ELSE 0)
  + (IF centroidDelta > 1000 * averaged.den THEN 2 ELSE 0)

\* the shared plosive adjustment (the forEach over VISEME_CATEGORIES)
plosiveScoring(averaged, volumeDelta, centroidDelta) ==
    (IF LT(volumeDelta, averaged.den, VolUnit, 1) THEN -5 ELSE 0)
  + (IF LT(averaged.volume, averaged.den, VolUnit, 20) THEN 2 ELSE 0)
  + (IF centroidDelta > 1000 * averaged.den THEN 2 ELSE 0)

\* computeVisemeScores with the last refinement of U outside the band gate
computeVisemeScores_ungatedRefinement(current, averaged, volumeDelta, centroidDelta) ==
  LET d == averaged.den
      band6 == current.bands[7]
      \* silence detection
      s1 == [ZeroScores EXCEPT !["sil"] =
               IF LT(averaged.volume, d, VolUnit, 20) /\ LT(current.volume, 1, VolUnit, 20)
                 THEN 10 ELSE @]
      \* plosive scoring
      s2 == [ v \in VisemeSet |->
                s1[v] + (IF VISEME_CATEGORIES[v] = "plosive"
                           THEN plosiveScoring(averaged, volumeDelta, centroidDelta)
                           ELSE 0) ]
      \* consonant detection based on centroid: the branch taken
      branch == IF current.centroid > 1000 /\ current.centroid < 8000
                  THEN IF current.centroid > 7000 THEN "DD"
                       ELSE IF current.centroid > 5000 THEN "kk"
                       ELSE IF current.centroid > 4000 THEN "PP"
                       ELSE "nn"
                  ELSE "none"
      s3 == [s2 EXCEPT
               !["DD"] = @ + (IF branch = "DD" THEN 6 ELSE 0)
                           + (IF /\ branch = "PP"
                                 /\ GT(band6, 1, ByteMax, 25)
                                 /\ current.centroid < 6000 THEN 14 ELSE 0),
               !["kk"] = @ + (IF branch = "kk" THEN 6 ELSE 0),
               !["PP"] = @ + (IF branch = "PP" THEN 10 ELSE 0),
               !["nn"] = @ + (IF branch = "nn" THEN 6 ELSE 0)]
      \* fricative detection
      s4 == [s3 EXCEPT !["FF"] =
               IF /\ centroidDelta > 1000 * d
                  /\ current.centroid > 6000
                  /\ averaged.centroid > 5000 * d
                  /\ GT(current.bands[7], 1, ByteMax, 40)
                  /\ GT(averaged.bands[7], d, ByteMax, 30)
                 THEN 7 ELSE @]
      \* vowel detection
      avgBand1 == averaged.bands[2]
      avgBand2 == averaged.bands[3]
      avgBand3 == averaged.bands[4]
      avgBand4 == averaged.bands[5]
      band1Diff == Abs(avgBand1 - avgBand2)
      bandVariance == Max(Abs(avgBand2 - avgBand3),
                          Max(Abs(avgBand2 - avgBand4), Abs(avgBand3 - avgBand4)))
      \* both enclosing conditions of the vowel rules
      vowelGate == /\ GT(averaged.volume, d, VolUnit, 10)
                   /\ averaged.centroid < 6000 * d
                   /\ current.centroid < 6000
                   /\ (GT(avgBand3, d, ByteMax, 10) \/ GT(avgBand4, d, ByteMax, 10))
      v1 == [s4 EXCEPT !["aa"] =
               IF vowelGate /\ avgBand4 > avgBand3
                 THEN (IF avgBand3 > avgBand2 THEN 10 ELSE 8) ELSE @]
      v2 == [v1 EXCEPT !["I"] =
               IF vowelGate /\ avgBand3 > avgBand2 /\ avgBand3 > avgBand4 THEN 7 ELSE @]
      v3 == [v2 EXCEPT !["U"] =
               IF vowelGate /\ LT(band1Diff, d, ByteMax, 25) THEN 7 ELSE @]
      v4 == [v3 EXCEPT !["O"] =
               IF vowelGate /\ LT(bandVariance, d, ByteMax, 25) THEN 9 ELSE @]
      v5 == [v4 EXCEPT !["E"] =
               IF vowelGate /\ avgBand2 > avgBand3 /\ avgBand3 > avgBand4 THEN 10 ELSE @]
      \* additional vowel refinements
      v6 == [v5 EXCEPT !["I"] =
               IF /\ vowelGate
                  /\ LT(avgBand3, d, ByteMax, 20) /\ GT(avgBand4, d, ByteMax, 30)
                 THEN 7 ELSE @]
      v7 == [v6 EXCEPT !["O"] =
               IF /\ vowelGate
                  /\ GT(avgBand3, d, ByteMax, 25) /\ GT(avgBand4, d, ByteMax, 25)
                 THEN 7 ELSE @]
  IN [v7 EXCEPT !["U"] =
        IF /\ GT(averaged.volume, d, VolUnit, 10)
           /\ LT(avgBand3, d, ByteMax, 15) /\ LT(avgBand4, d, ByteMax, 15)
          THEN 7 ELSE @]

\* computeVisemeScores whose refinement of O does not lower an earlier 0.9
computeVisemeScores_keepsEarlierO(current, averaged, volumeDelta, centroidDelta) ==
  LET d == averaged.den
      band6 == current.bands[7]
      \* silence detection
      s1 == [ZeroScores EXCEPT !["sil"] =
               IF LT(averaged.volume, d, VolUnit, 20) /\ LT(current.volume, 1, VolUnit, 20)
                 THEN 10 ELSE @]
      \* plosive scoring
      s2 == [ v \in VisemeSet |->
                s1[v] + (IF VISEME_CATEGORIES[v] = "plosive"
                           THEN plosiveScoring(averaged, volumeDelta, centroidDelta)
                           ELSE 0) ]
      \* consonant detection based on centroid: the branch taken
      branch == IF current.centroid > 1000 /\ current.centroid < 8000
                  THEN IF current.centroid > 7000 THEN "DD"
                       ELSE IF current.centroid > 5000 THEN "kk"
                       ELSE IF current.centroid > 4000 THEN "PP"
                       ELSE "nn"
                  ELSE "none"
      s3 == [s2 EXCEPT
               !["DD"] = @ + (IF branch = "DD" THEN 6 ELSE 0)
                           + (IF /\ branch = "PP"
                                 /\ GT(band6, 1, ByteMax, 25)
                                 /\ current.centroid < 6000 THEN 14 ELSE 0),
               !["kk"] = @ + (IF branch = "kk" THEN 6 ELSE 0),
               !["PP"] = @ + (IF branch = "PP" THEN 10 ELSE 0),
               !["nn"] = @ + (IF branch = "nn" THEN 6 ELSE 0)]
      \* fricative detection
      s4 == [s3 EXCEPT !["FF"] =
               IF /\ centroidDelta > 1000 * d
                  /\ current.centroid > 6000
                  /\ averaged.centroid > 5000 * d
                  /\ GT(current.bands[7], 1, ByteMax, 40)
                  /\ GT(averaged.bands[7], d, ByteMax, 30)
                 THEN 7 ELSE @]
      \* vowel detection
      avgBand1 == averaged.bands[2]
      avgBand2 == averaged.bands[3]
      avgBand3 == averaged.bands[4]
      avgBand4 == averaged.bands[5]
      band1Diff == Abs(avgBand1 - avgBand2)
      bandVariance == Max(Abs(avgBand2 - avgBand3),
                          Max(Abs(avgBand2 - avgBand4), Abs(avgBand3 - avgBand4)))
      \* both enclosing conditions of the vowel rules
      vowelGate == /\ GT(averaged.volume, d, VolUnit, 10)
                   /\ averaged.centroid < 6000 * d
                   /\ current.centroid < 6000
                   /\ (GT(avgBand3, d, ByteMax, 10) \/ GT(avgBand4, d, ByteMax, 10))
      v1 == [s4 EXCEPT !["aa"] =
               IF vowelGate /\ avgBand4 > avgBand3
                 THEN (IF avgBand3 > avgBand2 THEN 10 ELSE 8) ELSE @]
      v2 == [v1 EXCEPT !["I"] =
               IF vowelGate /\ avgBand3 > avgBand2 /\ avgBand3 > avgBand4 THEN 7 ELSE @]
      v3 == [v2 EXCEPT !["U"] =
               IF vowelGate /\ LT(band1Diff, d, ByteMax, 25) THEN 7 ELSE @]
      v4 == [v3 EXCEPT !["O"] =
               IF vowelGate /\ LT(bandVariance, d, ByteMax, 25) THEN 9 ELSE @]
      v5 == [v4 EXCEPT !["E"] =
               IF vowelGate /\ avgBand2 > avgBand3 /\ avgBand3 > avgBand4 THEN 10 ELSE @]
      \* additional vowel refinements
      v6 == [v5 EXCEPT !["I"] =
               IF /\ vowelGate
                  /\ LT(avgBand3, d, ByteMax, 20) /\ GT(avgBand4, d, ByteMax, 30)
                 THEN 7 ELSE @]
      v7 == [v6 EXCEPT !["O"] =
               IF /\ vowelGate
                  /\ GT(avgBand3, d, ByteMax, 25) /\ GT(avgBand4, d, ByteMax, 25)
                 THEN Max(@, 7) ELSE @]
  IN [v7 EXCEPT !["U"] =
        IF /\ vowelGate
           /\ LT(avgBand3, d, ByteMax, 15) /\ LT(avgBand4, d, ByteMax, 15)
          THEN 7 ELSE @]

computeVisemeScores(current, averaged, volumeDelta, centroidDelta) ==
  LET d == averaged.den
      band6 == current.bands[7]
      \* silence detection
      s1 == [ZeroScores EXCEPT !["sil"] =
               IF LT(averaged.volume, d, VolUnit, 20) /\ LT(current.volume, 1, VolUnit, 20)
                 THEN 10 ELSE @]
      \* plosive scoring
      s2 == [ v \in VisemeSet |->
                s1[v] + (IF VISEME_CATEGORIES[v] = "plosive"
                           THEN plosiveScoring(averaged, volumeDelta, centroidDelta)
                           ELSE 0) ]
      \* consonant detection based on centroid: the branch taken
      branch == IF current.centroid > 1000 /\ current.centroid < 8000
                  THEN IF current.centroid > 7000 THEN "DD"
                       ELSE IF current.centroid > 5000 THEN "kk"
                       ELSE IF current.centroid > 4000 THEN "PP"
                       ELSE "nn"
                  ELSE "none"
      s3 == [s2 EXCEPT
               !["DD"] = @ + (IF branch = "DD" THEN 6 ELSE 0)
                           + (IF /\ branch = "PP"
                                 /\ GT(band6, 1, ByteMax, 25)
                                 /\ current.centroid < 6000 THEN 14 ELSE 0),
               !["kk"] = @ + (IF branch = "kk" THEN 6 ELSE 0),
               !["PP"] = @ + (IF branch = "PP" THEN 10 ELSE 0),
               !["nn"] = @ + (IF branch = "nn" THEN 6 ELSE 0)]
      \* fricative detection
      s4 == [s3 EXCEPT !["FF"] =
               IF /\ centroidDelta > 1000 * d
                  /\ current.centroid > 6000
                  /\ averaged.centroid > 5000 * d
                  /\ GT(current.bands[7], 1, ByteMax, 40)
                  /\ GT(averaged.bands[7], d, ByteMax, 30)
                 THEN 7 ELSE @]
      \* vowel detection
      avgBand1 == averaged.bands[2]
      avgBand2 == averaged.bands[3]
      avgBand3 == averaged.bands[4]
      avgBand4 == averaged.bands[5]
      band1Diff == Abs(avgBand1 - avgBand2)
      bandVariance == Max(Abs(avgBand2 - avgBand3),
                          Max(Abs(avgBand2 - avgBand4), Abs(avgBand3 - avgBand4)))
      \* both enclosing conditions of the vowel rules
      vowelGate == /\ GT(averaged.volume, d, VolUnit, 10)
                   /\ averaged.centroid < 6000 * d
                   /\ current.centroid < 6000
                   /\ (GT(avgBand3, d, ByteMax, 10) \/ GT(avgBand4, d, ByteMax, 10))
      v1 == [s4 EXCEPT !["aa"] =
               IF vowelGate /\ avgBand4 > avgBand3
                 THEN (IF avgBand3 > avgBand2 THEN 10 ELSE 8) ELSE @]
      v2 == [v1 EXCEPT !["I"] =
               IF vowelGate /\ avgBand3 > avgBand2 /\ avgBand3 > avgBand4 THEN 7 ELSE @]
      v3 == [v2 EXCEPT !["U"] =
               IF vowelGate /\ LT(band1Diff, d, ByteMax, 25) THEN 7 ELSE @]
      v4 == [v3 EXCEPT !["O"] =
               IF vowelGate /\ LT(bandVariance, d, ByteMax, 25) THEN 9 ELSE @]
      v5 == [v4 EXCEPT !["E"] =
               IF vowelGate /\ avgBand2 > avgBand3 /\ avgBand3 > avgBand4 THEN 10 ELSE @]
      \* additional vowel refinements
      v6 == [v5 EXCEPT !["I"] =
               IF /\ vowelGate
                  /\ LT(avgBand3, d, ByteMax, 20) /\ GT(avgBand4, d, ByteMax, 30)
                 THEN 7 ELSE @]
      v7 == [v6 EXCEPT !["O"] =
               IF /\ vowelGate
                  /\ GT(avgBand3, d, ByteMax, 25) /\ GT(avgBand4, d, ByteMax, 25)
                 THEN 7 ELSE @]
  IN [v7 EXCEPT !["U"] =
        IF /\ vowelGate
           /\ LT(avgBand3, d, ByteMax, 15) /\ LT(avgBand4, d, ByteMax, 15)
          THEN 7 ELSE @]

(***************************************************************************)
(* Stabilizer                                                              *)
(***************************************************************************)
\* the multiplier of adjustScoresForConsistency, in thousandths
multiplier(elapsed) ==
  IF elapsed <= 100 THEN 1300
  ELSE IF elapsed <= maxVisemeDuration
    THEN 1300 - (300 * (elapsed - 100)) \div (maxVisemeDuration - 100)
    ELSE Max(500, 1000 - (elapsed - maxVisemeDuration))

\* adjusted scores in 1/10000: only the current viseme's entry is multiplied
adjustScoresForConsistency(scores, currentViseme, elapsed) ==
  [ v \in VisemeSet |->
      IF v = currentViseme THEN scores[v] * multiplier(elapsed)
                           ELSE scores[v] * 1000 ]

\* the selection loop with ">=": the last key that holds the maximum
bestViseme_lastMaximum(adjusted) ==
  LET i == CHOOSE i \in 1..Len(Visemes) :
             /\ \A j \in 1..Len(Visemes) : adjusted[Visemes[j]] <= adjusted[Visemes[i]]
             /\ \A j \in (i + 1)..Len(Visemes) : adjusted[Visemes[j]] < adjusted[Visemes[i]]
  IN Visemes[i]

\* the loop "for viseme in adjusted: if adjusted[viseme] > bestScore": the
\* first key, in key order, that holds the maximum
bestViseme(adjusted) ==
  LET i == CHOOSE i \in 1..Len(Visemes) :
             /\ \A j \in 1..Len(Visemes) : adjusted[Visemes[j]] <= adjusted[Visemes[i]]
             /\ \A j \in 1..(i - 1) : adjusted[Visemes[j]] < adjusted[Visemes[i]]
  IN Visemes[i]

\* In the operators below an intermediate result that the code keeps in a
\* local (features, averaged, scores) is bound once, as the only element of
\* a singleton set.

\* the raw score table from x, the result of extractFeatures
scoresOf(x) ==
  CHOOSE scores \in
    { computeVisemeScores(x.features, averaged,
                          x.features.volume * averaged.den - averaged.volume,
                          x.features.centroid * averaged.den - averaged.centroid)
        : averaged \in { getAveragedFeatures(x.history) } } : TRUE

\* the raw score table of a tick on frame, from the analyzer state before it
tickScores(a, frame) ==
  CHOOSE scores \in { scoresOf(x) : x \in { extractFeatures(a, frame) } } : TRUE

\* elapsed taken from the clock alone
elapsedSince_absolute(a, t) == t

\* elapsed = performance.now() - visemeStartTime
elapsedSince(a, t) == t - a.visemeStartTime

\* "find best viseme" over the adjusted scores
winner(scores, currentViseme, elapsed) ==
  bestViseme(adjustScoresForConsistency(scores, currentViseme, elapsed))

\* the update restarting the dwell on every tick
updateViseme_alwaysRestart(a, best, t) ==
  [a EXCEPT !.visemeStartTime = t, !.currentViseme = best]

\* "update viseme with timing"
updateViseme(a, best, t) ==
  IF best # a.currentViseme
    THEN [a EXCEPT !.visemeStartTime = t, !.currentViseme = best]
    ELSE a

\* processAudio without "if (!features) { currentViseme = sil; return }"
processAudio_noNullCheck(a, frame, t) ==
  CHOOSE r \in
    { updateViseme([a EXCEPT !.history = x.history], best, t)
        : <<x, best>> \in
            { <<y, winner(scoresOf(y), a.currentViseme, elapsedSince(a, t))>>
                : y \in { extractFeatures(a, frame) } } } : TRUE

processAudio(a, frame, t) ==
  IF ~(a.analyser /\ a.dataArray)
    THEN [a EXCEPT !.currentViseme = "sil"]
    ELSE CHOOSE r \in
           { updateViseme([a EXCEPT !.history = x.history], best, t)
               : <<x, best>> \in
                   { <<y, winner(scoresOf(y), a.currentViseme, elapsedSince(a, t))>>
                       : y \in { extractFeatures(a, frame) } } } : TRUE

\* processAudio when extractFeatures throws at getByteFrequencyData: the
\* exception propagates (no try/catch) and no assignment has run
processAudioThrows(a) == a

(***************************************************************************)
(* The chatbot store (the WebRTC part of useChatbot)                       *)
(***************************************************************************)
\* element is the playback state of the HTMLAudioElement held in audioPlayer
\* ("idle", "loading" after play(), "playing" once the playing event is due)
NewStore ==
  [ audioPlayer |-> FALSE, webrtcAudioPlayer |-> FALSE,
    lipsyncManager |-> FALSE, webrtcLipsyncManager |-> FALSE,
    isAudioPlaying |-> FALSE, audioSourceType |-> "null",
    lipsyncManagerInitialized |-> FALSE, webrtcLipsyncInitialized |-> FALSE,
    element |-> "idle", droppedConnected |-> 0 ]

\* the set({...}) of disconnectWebRTCAudio
storeCleared(st) ==
  [st EXCEPT !.webrtcAudioPlayer = FALSE, !.webrtcLipsyncManager = FALSE,
             !.webrtcLipsyncInitialized = FALSE, !.isAudioPlaying = FALSE,
             !.audioSourceType = "null"]

\* disconnectWebRTCAudio on the pair <<store, analyzer it holds>>
disconnectWebRTCAudio(st, a) ==
  IF st.webrtcLipsyncManager
    THEN [store |-> storeCleared(st), analyzer |-> disconnect(a)]
    ELSE [store |-> st, analyzer |-> a]

\* connectWebRTCAudio without the disconnect of the analyzer held before
connectWebRTCAudio_noDisconnect(st, a, fail, rate, t) ==
  LET d == [store |-> st, analyzer |-> a]
      fresh == connectStream(NewAnalyzer, fail, rate, t)
  IN [ store |-> [d.store EXCEPT
                    !.webrtcAudioPlayer = FALSE,
                    !.webrtcLipsyncManager = TRUE,
                    !.webrtcLipsyncInitialized = TRUE,
                    !.isAudioPlaying = TRUE,
                    !.audioSourceType = "webrtc",
                    !.droppedConnected = @ + (IF d.analyzer.connected THEN 1 ELSE 0)],
       analyzer |-> fresh ]

\* connectWebRTCAudio: a fresh analyzer replaces the one held before
connectWebRTCAudio(st, a, fail, rate, t) ==
  LET d == IF st.webrtcLipsyncManager
             THEN disconnectWebRTCAudio(st, a)
             ELSE [store |-> st, analyzer |-> a]
      fresh == connectStream(NewAnalyzer, fail, rate, t)
  IN [ store |-> [d.store EXCEPT
                    !.webrtcAudioPlayer = FALSE,
                    !.webrtcLipsyncManager = TRUE,
                    !.webrtcLipsyncInitialized = TRUE,
                    !.isAudioPlaying = TRUE,
                    !.audioSourceType = "webrtc",
                    !.droppedConnected = @ + (IF d.analyzer.connected THEN 1 ELSE 0)],
       analyzer |-> fresh ]

\* setupAudioPlayer: creates the audio element and the file lipsync manager
\* once (Audio is available in the browser)
setupAudioPlayer(st) ==
  IF st.audioPlayer
    THEN st
    ELSE [st EXCEPT !.audioPlayer = TRUE, !.lipsyncManager = TRUE,
                    !.element = "idle"]

\* the playing handler of the audio element
handlePlaying(st) ==
  [st EXCEPT !.lipsyncManagerInitialized =
               IF ~st.lipsyncManagerInitialized /\ st.lipsyncManager
                 THEN TRUE ELSE @,
             !.isAudioPlaying = TRUE, !.audioSourceType = "file",
             !.element = "playing"]

\* the ended handler of the audio element
handleEnded(st) ==
  [st EXCEPT !.isAudioPlaying = FALSE, !.audioSourceType = "null",
             !.element = "idle"]

\* playAudio on the pair <<store, analyzer it holds>>
playAudio(st, a) ==
  LET d == IF st.webrtcAudioPlayer
             THEN disconnectWebRTCAudio(st, a)
             ELSE [store |-> st, analyzer |-> a]
  IN IF ~st.audioPlayer
       THEN d
       ELSE [d EXCEPT !.store.element = "loading"]

\* cleanup on the pair <<store, analyzer it holds>>
cleanup(st, a) ==
  LET d == IF st.webrtcAudioPlayer
             THEN disconnectWebRTCAudio(st, a)
             ELSE [store |-> st, analyzer |-> a]
  IN IF ~st.audioPlayer
       THEN d
       ELSE [d EXCEPT !.store.audioPlayer = FALSE,
                      !.store.lipsyncManager = FALSE,
                      !.store.isAudioPlaying = FALSE,
                      !.store.audioSourceType = "null",
                      !.store.lipsyncManagerInitialized = FALSE,
                      !.store.element = "idle"]

(***************************************************************************)
(* The useElevenLabsAudio hook.  isPatchActive and onAudioTrackCallback    *)
(* are the module variables, hasConnectedRef and audioStreamRef the refs,  *)
(* isConnected the prop.  session tells whether the SDK has a peer         *)
(* connection, connectionPatched whether that connection was built by the  *)
(* patched constructor (and so carries the track listener); tracks and     *)
(* connects count the audio tracks and the connectWebRTCAudio calls of the *)
(* session, sessions the sessions started.                                 *)
(***************************************************************************)
MaxSessions == 3
MaxTracks == 2

NewHook ==
  [ mounted |-> FALSE, isPatchActive |-> FALSE, onAudioTrackCallback |-> FALSE,
    hasConnectedRef |-> FALSE, audioStreamRef |-> FALSE, isConnected |-> FALSE,
    session |-> "none", connectionPatched |-> FALSE,
    tracks |-> 0, connects |-> 0, sessions |-> 0 ]

patchRTCPeerConnection(h) ==
  IF h.isPatchActive THEN h ELSE [h EXCEPT !.isPatchActive = TRUE]

\* OriginalRTCPeerConnection is set exactly while isPatchActive
restoreRTCPeerConnection(h) ==
  IF h.isPatchActive
    THEN [h EXCEPT !.isPatchActive = FALSE, !.onAudioTrackCallback = FALSE]
    ELSE h

prepareCapture(h) ==
  patchRTCPeerConnection([h EXCEPT !.onAudioTrackCallback = TRUE])

\* stopCapture on <<hook, store, analyzer the store holds>>
stopCapture(h, st, a) ==
  LET d == IF h.audioStreamRef
             THEN disconnectWebRTCAudio(st, a)
             ELSE [store |-> st, analyzer |-> a]
  IN [ hook |-> restoreRTCPeerConnection(
                  [h EXCEPT !.hasConnectedRef = FALSE, !.audioStreamRef = FALSE]),
       store |-> d.store, analyzer |-> d.analyzer ]

\* handleAudioTrack on <<hook, store, analyzer the store holds>>
handleAudioTrack(h, st, a, fail, rate, t) ==
  IF h.hasConnectedRef
    THEN [hook |-> h, store |-> st, analyzer |-> a]
    ELSE LET c == connectWebRTCAudio(st, a, fail, rate, t)
         IN [ hook |-> [h EXCEPT !.audioStreamRef = TRUE,
                                 !.hasConnectedRef = TRUE,
                                 !.connects = @ + 1],
              store |-> c.store, analyzer |-> c.analyzer ]

\* the track listener the patched constructor adds to a connection
onTrack(h, st, a, fail, rate, t) ==
  IF h.connectionPatched /\ h.onAudioTrackCallback
    THEN handleAudioTrack(h, st, a, fail, rate, t)
    ELSE [hook |-> h, store |-> st, analyzer |-> a]

(***************************************************************************)
(* State                                                                   *)
(***************************************************************************)
VARIABLES
  analyzer,    \* the analyzer (the one the store holds, in SpecStore)
  store,       \* the chatbot store
  now,         \* performance.now()
  lastOp,      \* the last operation called and what it was called on
  prevScores,  \* the raw score table of the last tick of this session
  admitted,    \* the snapshots pushed onto the history since it was cleared
  scoring,     \* one call of computeVisemeScores: its arguments and result
  hook         \* useElevenLabsAudio: its module variables, refs and session

vars == <<analyzer, store, now, lastOp, prevScores, admitted, scoring, hook>>

NoScores == << >>

Op(name, fail, a) ==
  [ name |-> name, fail |-> fail, prev |-> lastOp.name,
    preConnected |-> a.connected, preLen |-> Len(a.history),
    preViseme |-> a.currentViseme, prevPreConnected |-> lastOp.preConnected,
    hadFrame |-> FALSE, zeroFrame |-> FALSE, sameScores |-> FALSE,
    preStart |-> a.visemeStartTime, preHistory |-> a.history,
    frame |-> ZeroFrame, escaped |-> FALSE, zeroRun |-> 0,
    lastChange |-> lastOp.lastChange ]

InitState ==
  /\ analyzer = NewAnalyzer
  /\ store = NewStore
  /\ now = 0
  /\ lastOp = [ name |-> "none", fail |-> "none", prev |-> "none",
                preConnected |-> FALSE, preLen |-> 0, preViseme |-> "sil",
                prevPreConnected |-> FALSE,
                hadFrame |-> FALSE, zeroFrame |-> FALSE, sameScores |-> FALSE,
                preStart |-> 0, preHistory |-> << >>,
                frame |-> ZeroFrame, escaped |-> FALSE, zeroRun |-> 0,
                lastChange |-> 0 ]
  /\ prevScores = NoScores
  /\ admitted = << >>
  /\ hook = NewHook

NoScoring == [ in |-> << >>, out |-> NoScores ]

Init == InitState /\ scoring = NoScoring

(***************************************************************************)
(* Operations of the analyzer                                              *)
(***************************************************************************)
ConnectStream(fail, rate) ==
  /\ analyzer' = connectStream(analyzer, fail, rate, now)
  /\ lastOp' = [ Op("connectStream", fail, analyzer) EXCEPT
                   !.lastChange = IF fail \in ConnectFailures THEN @ ELSE now ]
  /\ prevScores' = NoScores
  /\ admitted' = << >>
  /\ UNCHANGED <<store, now, scoring, hook>>

Disconnect ==
  /\ analyzer' = disconnect(analyzer)
  /\ lastOp' = Op("disconnect", "none", analyzer)
  /\ prevScores' = NoScores
  /\ admitted' = << >>
  /\ UNCHANGED <<store, now, scoring, hook>>

\* one tick; cap bounds the snapshots admitted per session
ProcessAudio(frame, cap) ==
  \E hasData \in { analyzer.analyser /\ analyzer.dataArray } :
  \E x \in { extractFeatures(analyzer, frame) } :
  \E scores \in { scoresOf(x) } :
     /\ (hasData /\ x.totalEnergy > 0) => Len(admitted) < cap
     /\ analyzer' = processAudio(analyzer, frame, now)
     /\ lastOp' = [ Op("processAudio", "none", analyzer) EXCEPT
                      !.hadFrame = hasData,
                      !.zeroFrame = hasData /\ frame = ZeroFrame,
                      !.sameScores = hasData /\ prevScores = scores,
                      !.frame = frame,
                      !.zeroRun = IF hasData /\ frame = ZeroFrame
                                    THEN Min(lastOp.zeroRun + 1, MaxZeroRun)
                                    ELSE 0,
                      !.lastChange =
                         IF analyzer'.currentViseme # analyzer.currentViseme
                           THEN now ELSE @ ]
     /\ prevScores' = IF hasData THEN scores ELSE prevScores
     /\ admitted' = IF hasData /\ x.totalEnergy > 0
                      THEN Append(admitted, x.features) ELSE admitted
     /\ UNCHANGED <<store, now, scoring, hook>>

\* one tick in which analyser.getByteFrequencyData throws: nothing in
\* extractFeatures, processAudio or useFrame catches, so the exception leaves
\* processAudio before any assignment
ProcessAudioThrows ==
  /\ analyzer.analyser /\ analyzer.dataArray
  /\ analyzer' = processAudioThrows(analyzer)
  /\ lastOp' = [ Op("processAudio", "none", analyzer) EXCEPT
                   !.escaped = TRUE, !.zeroRun = lastOp.zeroRun ]
  /\ UNCHANGED <<store, now, prevScores, admitted, scoring, hook>>

TimePasses ==
  /\ now + ClockStep <= ClockStep * MaxClockSteps
  /\ now' = now + ClockStep
  /\ lastOp' = [ Op("timePasses", "none", analyzer) EXCEPT
                   !.zeroRun = lastOp.zeroRun ]
  /\ UNCHANGED <<analyzer, store, prevScores, admitted, scoring, hook>>

Connect == \E fail \in ConnectFailures \cup {"none"}, rate \in SampleRates :
             ConnectStream(fail, rate)

Tick == \E frame \in Frames : ProcessAudio(frame, MaxPushed)

Next == Connect \/ Disconnect \/ Tick \/ ProcessAudioThrows \/ TimePasses

Spec == Init /\ [][Next]_vars

(***************************************************************************)
(* The history specification: one session of loud frames, long enough to   *)
(* fill the history and evict from it                                      *)
(***************************************************************************)
ConnectOk == \E rate \in SampleRates : ConnectStream("none", rate)

TickLoud == \E frame \in LoudFrames : ProcessAudio(frame, MaxPushedLong)

NextHistory == ConnectOk \/ TickLoud

SpecHistory == Init /\ [][NextHistory]_vars

(***************************************************************************)
(* The gate specification: one session mixing a vowel-shaped frame with    *)
(* frames whose energy lies in band 1 only                                 *)
(***************************************************************************)
TickGate == \E frame \in GateFrames : ProcessAudio(frame, MaxPushedGate)

NextGate == ConnectOk \/ TickGate

SpecGate == Init /\ [][NextGate]_vars

(***************************************************************************)
(* The scoring specification: computeVisemeScores applied once to a pair   *)
(* of current and averaged snapshots drawn from two families, one varying  *)
(* what the silence, plosive, centroid and fricative rules read, one       *)
(* varying what the vowel rules read                                       *)
(***************************************************************************)
\* a snapshot as extractFeatures builds it from band energies and a centroid
Snapshot(bandEnergies, centroid) ==
  [ bands |-> bandEnergies, deltaBands |-> [ i \in 1..NumBands |-> 0 ],
    volume |-> SumSeq(bandEnergies), centroid |-> centroid ]

CentroidLevels ==
  {500, 1000, 2500, 4000, 4500, 5000, 5500, 6500, 7000, 7500, 8000, 9000}

ConsonantInputs ==
  { [ current |-> Snapshot(<<c0, 0, 0, 0, 0, 0, c6>>, cc),
      averaged |-> getAveragedFeatures(<< Snapshot(<<a0, 0, 0, 0, 0, 0, a6>>, ac) >>) ] :
      c0 \in {0, 255}, c6 \in {0, 60, 64, 102, 110}, cc \in CentroidLevels,
      a0 \in {0, 255}, a6 \in {0, 80, 102}, ac \in {500, 5500} }

VowelInputs ==
  { [ current |-> Snapshot(<<255, 0, 0, 0, 0, 0, 0>>, cc),
      averaged |-> getAveragedFeatures(<< Snapshot(<<a0, b1, b2, b3, b4, 0, 0>>, ac) >>) ] :
      cc \in {3000, 6000, 6500},
      a0 \in {0, 255}, b1 \in {0, 100}, b2 \in {20, 70},
      b3 \in {0, 26, 30, 45, 51, 70, 90},
      b4 \in {0, 26, 30, 60, 77, 80, 100},
      ac \in {500, 6000, 6500} }

ScoreInputs == ConsonantInputs \cup VowelInputs

InitScores ==
  /\ InitState
  /\ scoring \in { [ in |-> i, out |-> NoScores ] : i \in ScoreInputs }

\* the call of computeVisemeScores in processAudio, with the two deltas
Score ==
  /\ scoring.out = NoScores
  /\ \E current \in { scoring.in.current } :
     \E averaged \in { scoring.in.averaged } :
       scoring' = [ scoring EXCEPT !.out =
                      computeVisemeScores(
                        current, averaged,
                        current.volume * averaged.den - averaged.volume,
                        current.centroid * averaged.den - averaged.centroid) ]
  /\ UNCHANGED <<analyzer, store, now, lastOp, prevScores, admitted, hook>>

NextScores == Score

SpecScores == InitScores /\ [][NextScores]_vars

(***************************************************************************)
(* The store specification: the analyzer is used through the store and the *)
(* render loop (useVisemeManager's useFrame) only                          *)
(***************************************************************************)
ConnectWebRTCAudio ==
  \E fail \in ConnectFailures \cup {"none"}, rate \in SampleRates :
    LET r == connectWebRTCAudio(store, analyzer, fail, rate, now)
    IN /\ store' = r.store
       /\ analyzer' = r.analyzer
       /\ lastOp' = [ Op("connectWebRTCAudio", fail, analyzer) EXCEPT
                        !.lastChange = IF fail \in ConnectFailures THEN @ ELSE now ]
       /\ prevScores' = NoScores
       /\ admitted' = << >>
       /\ UNCHANGED <<now, scoring, hook>>

DisconnectWebRTCAudio ==
  LET r == disconnectWebRTCAudio(store, analyzer)
  IN /\ store' = r.store
     /\ analyzer' = r.analyzer
     /\ lastOp' = Op("disconnectWebRTCAudio", "none", analyzer)
     /\ prevScores' = IF store.webrtcLipsyncManager THEN NoScores ELSE prevScores
     /\ admitted' = IF store.webrtcLipsyncManager THEN << >> ELSE admitted
     /\ UNCHANGED <<now, scoring, hook>>

\* useFrame: processAudio runs when the source is webrtc and audio is playing
UseFrame ==
  /\ store.audioSourceType = "webrtc"
  /\ store.isAudioPlaying
  /\ store.webrtcLipsyncManager
  /\ \E frame \in Frames : ProcessAudio(frame, MaxPushed)

NextStore == ConnectWebRTCAudio \/ DisconnectWebRTCAudio \/ UseFrame \/ TimePasses

SpecStore == Init /\ [][NextStore]_vars

(***************************************************************************)
(* The whole store: file playback and cleanup next to the WebRTC calls     *)
(***************************************************************************)
SetupAudioPlayer ==
  /\ store' = setupAudioPlayer(store)
  /\ lastOp' = Op("setupAudioPlayer", "none", analyzer)
  /\ UNCHANGED <<analyzer, now, prevScores, admitted, scoring, hook>>

PlayAudio ==
  LET r == playAudio(store, analyzer)
  IN /\ store' = r.store
     /\ analyzer' = r.analyzer
     /\ lastOp' = Op("playAudio", "none", analyzer)
     /\ UNCHANGED <<now, prevScores, admitted, scoring, hook>>

HandlePlaying ==
  /\ store.audioPlayer
  /\ store.element = "loading"
  /\ store' = handlePlaying(store)
  /\ lastOp' = Op("handlePlaying", "none", analyzer)
  /\ UNCHANGED <<analyzer, now, prevScores, admitted, scoring, hook>>

HandleEnded ==
  /\ store.audioPlayer
  /\ store.element = "playing"
  /\ store' = handleEnded(store)
  /\ lastOp' = Op("handleEnded", "none", analyzer)
  /\ UNCHANGED <<analyzer, now, prevScores, admitted, scoring, hook>>

Cleanup ==
  LET r == cleanup(store, analyzer)
  IN /\ store' = r.store
     /\ analyzer' = r.analyzer
     /\ lastOp' = Op("cleanup", "none", analyzer)
     /\ UNCHANGED <<now, prevScores, admitted, scoring, hook>>

NextStoreFull ==
  \/ SetupAudioPlayer
  \/ PlayAudio
  \/ HandlePlaying
  \/ HandleEnded
  \/ Cleanup
  \/ ConnectWebRTCAudio
  \/ DisconnectWebRTCAudio
  \/ TimePasses

SpecStoreFull == Init /\ [][NextStoreFull]_vars

(***************************************************************************)
(* The hook specification: the component mounts the hook, the SDK starts   *)
(* and ends sessions, and audio tracks arrive on the session's connection  *)
(***************************************************************************)
\* the mount effect: prepareCapture()
Mount ==
  /\ ~hook.mounted
  /\ hook' = [prepareCapture(hook) EXCEPT !.mounted = TRUE]
  /\ lastOp' = Op("mount", "none", analyzer)
  /\ UNCHANGED <<analyzer, store, now, prevScores, admitted, scoring>>

\* the SDK constructs window.RTCPeerConnection for a new session
StartSession ==
  /\ hook.mounted
  /\ hook.session = "none"
  /\ hook.sessions < MaxSessions
  /\ hook' = [hook EXCEPT !.session = "active",
                          !.connectionPatched = hook.isPatchActive,
                          !.tracks = 0, !.connects = 0,
                          !.sessions = @ + 1]
  /\ lastOp' = Op("startSession", "none", analyzer)
  /\ UNCHANGED <<analyzer, store, now, prevScores, admitted, scoring>>

\* the session reports connected: the isConnected prop turns true
SessionConnected ==
  /\ hook.session = "active"
  /\ ~hook.isConnected
  /\ hook' = [hook EXCEPT !.isConnected = TRUE]
  /\ lastOp' = Op("sessionConnected", "none", analyzer)
  /\ UNCHANGED <<analyzer, store, now, prevScores, admitted, scoring>>

\* a track event with an audio track on the session's connection
AudioTrack ==
  /\ hook.session = "active"
  /\ hook.tracks < MaxTracks
  /\ \E fail \in ConnectFailures \cup {"none"}, rate \in SampleRates :
       LET r == onTrack(hook, store, analyzer, fail, rate, now)
       IN /\ hook' = [r.hook EXCEPT !.tracks = @ + 1]
          /\ store' = r.store
          /\ analyzer' = r.analyzer
          /\ lastOp' = Op("audioTrack", fail, analyzer)
  /\ prevScores' = NoScores
  /\ admitted' = << >>
  /\ UNCHANGED <<now, scoring>>

\* the session ends; if it had reported connected, the isConnected prop
\* turns false and the effect on it runs stopCapture when hasConnectedRef
\* is set
EndSession ==
  /\ hook.session = "active"
  /\ LET h == [hook EXCEPT !.session = "none", !.isConnected = FALSE]
         r == IF hook.isConnected /\ h.hasConnectedRef
                THEN stopCapture(h, store, analyzer)
                ELSE [hook |-> h, store |-> store, analyzer |-> analyzer]
     IN /\ hook' = r.hook
        /\ store' = r.store
        /\ analyzer' = r.analyzer
  /\ lastOp' = Op("endSession", "none", analyzer)
  /\ prevScores' = NoScores
  /\ admitted' = << >>
  /\ UNCHANGED <<now, scoring>>

NextHook ==
  \/ Mount
  \/ StartSession
  \/ SessionConnected
  \/ AudioTrack
  \/ EndSession
  \/ TimePasses

SpecHook == Init /\ [][NextHook]_vars

(***************************************************************************)
(* Properties                                                              *)
(***************************************************************************)
NoResources(a) ==
  /\ ~a.audioContext /\ ~a.analyser /\ ~a.sourceNode /\ ~a.dataArray
  /\ a.openContexts = 0 /\ a.edges = {}

\* the last n elements of s (all of s when it is shorter)
LastN(s, n) == IF Len(s) <= n THEN s ELSE SubSeq(s, Len(s) - n + 1, Len(s))

\* C1: whenever the session is not connected the exposed viseme is Silence,
\* and it is Silence in the state a disconnect leaves.
C1_DisconnectedIsSilence ==
  (~isConnected(analyzer) \/ lastOp.name = "disconnect")
    => analyzer.currentViseme = "sil"

\* a disconnect has just ended a session whose viseme was not Silence
C1_Witness ==
  /\ lastOp.name = "disconnect" /\ lastOp.preConnected
  /\ lastOp.preViseme # "sil"
  /\ ~isConnected(analyzer)

\* C2: a disconnect leaves viseme Silence, isConnected() false and an empty
\* history, and a successful connect starts with an empty history.
C2_DisconnectResets ==
  /\ lastOp.name = "disconnect" =>
       /\ analyzer.currentViseme = "sil"
       /\ ~isConnected(analyzer)
       /\ analyzer.history = << >>
  /\ (lastOp.name = "connectStream" /\ lastOp.fail = "none") =>
       analyzer.history = << >>

\* a disconnect after a session that had ticked on non-silent frames
C2_Witness ==
  /\ lastOp.name = "disconnect" /\ lastOp.preConnected
  /\ lastOp.preLen > 0 /\ lastOp.prev = "processAudio"
  /\ analyzer.history = << >>

\* C3: a successful connect, whatever the state it is called in, ends
\* connected, with an empty history, viseme Silence, the dwell start at the
\* time of the call, and only the new connection's resources held.
C3_ConnectPostcondition ==
  (lastOp.name = "connectStream" /\ lastOp.fail = "none") =>
    /\ isConnected(analyzer)
    /\ analyzer.history = << >>
    /\ analyzer.currentViseme = "sil"
    /\ analyzer.visemeStartTime = now
    /\ analyzer.openContexts = 1
    /\ analyzer.audioContext /\ analyzer.analyser
    /\ analyzer.sourceNode /\ analyzer.dataArray

\* a successful connect called while connected, with history and a viseme
C3_Witness ==
  /\ lastOp.name = "connectStream" /\ lastOp.fail = "none"
  /\ lastOp.preConnected /\ lastOp.preLen > 0 /\ lastOp.preViseme # "sil"
  /\ now > 0

\* C4: the only edge of the audio graph is source -> analyser; it exists
\* exactly while connected, and nothing is ever connected to a destination.
C4_NoOutputEdge ==
  /\ analyzer.edges \subseteq {<<"source", "analyser">>}
  /\ isConnected(analyzer) <=> analyzer.edges = {<<"source", "analyser">>}

\* a connect has created the source -> analyser edge
C4_Witness ==
  /\ lastOp.name = "connectStream" /\ lastOp.fail = "none"
  /\ analyzer.edges = {<<"source", "analyser">>}

\* C5: disconnect is idempotent: applied to any reachable state, a second
\* disconnect changes nothing, and the state it leaves is the reset state.
C5_DisconnectIdempotent ==
  /\ disconnect(disconnect(analyzer)) = disconnect(analyzer)
  /\ ~disconnect(analyzer).connected
  /\ NoResources(disconnect(analyzer))
  /\ disconnect(analyzer).currentViseme = "sil"
  /\ disconnect(analyzer).history = << >>
  /\ lastOp.name = "disconnect" => disconnect(analyzer) = analyzer

\* disconnect called twice in a row, the first one ending a session
C5_Witness ==
  /\ lastOp.name = "disconnect" /\ lastOp.prev = "disconnect"
  /\ lastOp.prevPreConnected /\ ~lastOp.preConnected

\* C6: a failed connect leaves the session not connected, viseme Silence,
\* history empty, no audio resource held, and a connect called next succeeds.
C6_FailedConnectCleansUp ==
  (lastOp.name = "connectStream" /\ lastOp.fail # "none") =>
    /\ ~isConnected(analyzer)
    /\ analyzer.currentViseme = "sil"
    /\ analyzer.history = << >>
    /\ NoResources(analyzer)
    /\ \A rate \in SampleRates :
         isConnected(connectStream(analyzer, "none", rate, now))

\* a connect that failed after the context and the analyser were created,
\* called on a connected session
C6_Witness ==
  /\ lastOp.name = "connectStream"
  /\ lastOp.fail = "createMediaStreamSource"
  /\ lastOp.preConnected /\ lastOp.preLen > 0

\* C7: after a connectWebRTCAudio whose connectStream failed, the store does
\* not record the WebRTC session as initialized, playing or of type webrtc.
C7_FailedConnectNotRecorded ==
  (lastOp.name = "connectWebRTCAudio" /\ lastOp.fail # "none") =>
    /\ ~store.webrtcLipsyncInitialized
    /\ ~store.isAudioPlaying
    /\ store.audioSourceType # "webrtc"

\* C8: the history never holds more than historySize snapshots and always
\* holds the most recent admitted snapshots, in arrival order.
C8_HistoryBound ==
  /\ Len(analyzer.history) <= historySize
  /\ analyzer.history = LastN(admitted, historySize)

\* more snapshots were admitted than the history holds, of both kinds
C8_Witness ==
  /\ Len(admitted) >= historySize + 2
  /\ Len(analyzer.history) = historySize
  /\ \E i \in 1..historySize : analyzer.history[i].bands # analyzer.history[1].bands
  /\ admitted[1].bands # admitted[Len(admitted)].bands

\* C9: a tick on an all-zero frame has volume 0 and centroid 0 and leaves
\* the current viseme Silence, whatever the history holds.
C9_ZeroFrameGivesSilence ==
  (lastOp.name = "processAudio" /\ lastOp.zeroFrame) =>
    /\ extractFeatures(analyzer, ZeroFrame).features.volume = 0
    /\ extractFeatures(analyzer, ZeroFrame).features.centroid = 0
    /\ analyzer.currentViseme = "sil"

\* C10 as claimed: on a tick whose raw score table equals that of the tick
\* before it, the selected viseme stays selected.
C10_NoChangeUnderIdenticalScores ==
  [][ (lastOp'.name = "processAudio" /\ lastOp'.sameScores)
        => analyzer'.currentViseme = analyzer.currentViseme ]_vars

\* C10 as amended: on a tick whose raw score table equals that of the tick
\* before it, the current viseme is replaced only by a viseme whose
\* unmultiplied score exceeds the current viseme's multiplied score, or
\* equals it and comes earlier in the enumeration order.
C10_ReplacedOnlyWhenOvertaken ==
  [][ ( /\ lastOp'.name = "processAudio" /\ lastOp'.sameScores
        /\ analyzer'.currentViseme # analyzer.currentViseme )
        => \/ prevScores'[analyzer'.currentViseme] * 1000
                > prevScores'[analyzer.currentViseme]
                    * multiplier(now - analyzer.visemeStartTime)
           \/ /\ prevScores'[analyzer'.currentViseme] * 1000
                   = prevScores'[analyzer.currentViseme]
                       * multiplier(now - analyzer.visemeStartTime)
              /\ VisemeIndex(analyzer'.currentViseme)
                   < VisemeIndex(analyzer.currentViseme) ]_vars

\* a tick with the same raw scores as the tick before it replaced the viseme
C10_Witness ==
  /\ lastOp.name = "processAudio" /\ lastOp.sameScores
  /\ lastOp.preViseme # analyzer.currentViseme
  /\ lastOp.preViseme # "sil"

\* the adjusted score table of the last tick, from the state it started in
lastAdjusted ==
  adjustScoresForConsistency(prevScores, lastOp.preViseme, now - lastOp.preStart)

\* the last operation was a tick that read a frame
TickedWithFrame == lastOp.name = "processAudio" /\ lastOp.hadFrame

\* C11: the viseme a tick selects holds the maximal adjusted score, and every
\* viseme earlier in the enumeration order has a strictly smaller one.
C11_FirstMaximumWins ==
  TickedWithFrame =>
    /\ \A w \in VisemeSet : lastAdjusted[w] <= lastAdjusted[analyzer.currentViseme]
    /\ \A j \in 1..(VisemeIndex(analyzer.currentViseme) - 1) :
         lastAdjusted[Visemes[j]] < lastAdjusted[analyzer.currentViseme]

\* a tick in which a later viseme shared the maximal adjusted score
C11_Witness ==
  /\ TickedWithFrame
  /\ \E w \in VisemeSet :
       /\ VisemeIndex(w) > VisemeIndex(analyzer.currentViseme)
       /\ lastAdjusted[w] = lastAdjusted[analyzer.currentViseme]
       /\ lastAdjusted[w] > 0

\* C12: a tick in which reading the frame throws returns normally to its
\* caller and leaves the current viseme Silence.
C12_TickFailureCaught ==
  (lastOp.name = "processAudio" /\ lastOp.preConnected /\ ~lastOp.hadFrame) =>
    /\ ~lastOp.escaped
    /\ analyzer.currentViseme = "sil"

\* the averaged band 3 and band 4 over h are both <= 0.1
GateFails(h) ==
  \E averaged \in { getAveragedFeatures(h) } :
     /\ ~GT(averaged.bands[4], averaged.den, ByteMax, 10)
     /\ ~GT(averaged.bands[5], averaged.den, ByteMax, 10)

Vowels == { v \in VisemeSet : VISEME_CATEGORIES[v] = "vowel" }

\* C13: after a tick whose averaged band 3 and band 4 are both <= 0.1, the
\* five vowel scores of that tick are 0 and the selected viseme is no vowel.
C13_GateBlocksVowels ==
  (TickedWithFrame /\ GateFails(analyzer.history)) =>
    /\ \A v \in Vowels : prevScores[v] = 0
    /\ analyzer.currentViseme \notin Vowels

\* the gate failed on a tick that started with a vowel selected, with
\* averaged volume above 0.1
C13_Witness ==
  /\ TickedWithFrame /\ GateFails(analyzer.history)
  /\ lastOp.preViseme \in Vowels
  /\ lastOp.frame = FrameC
  /\ Len(analyzer.history) >= 4
  /\ \E averaged \in { getAveragedFeatures(analyzer.history) } :
       GT(averaged.volume, averaged.den, VolUnit, 10)
  /\ analyzer.currentViseme \notin Vowels

\* C14: the seven bands partition 50-8000 Hz: each has start < end, each
\* end is the next start, the first start is 50 and the last end is 8000;
\* the table is the same in every state.
C14_BandsPartition ==
  /\ NumBands = 7
  /\ \A i \in 1..NumBands : bands[i].start < bands[i].end
  /\ \A i \in 1..(NumBands - 1) : bands[i].end = bands[i + 1].start
  /\ bands[1].start = 50
  /\ bands[NumBands].end = 8000
  /\ \A i \in 1..(NumBands - 1) :
       endBin(i, analyzer.sampleRate) = startBin(i + 1, analyzer.sampleRate)

\* a session that connected, ticked on loud frames and disconnected
C14_Witness ==
  /\ lastOp.name = "disconnect" /\ lastOp.preConnected
  /\ lastOp.preLen > 0 /\ lastOp.prev = "processAudio"
  /\ analyzer.sampleRate # defaultSampleRate

\* the multiplier as C15 states it, in thousandths
claimedMultiplier(elapsed) ==
  IF elapsed <= 100 THEN 1300
  ELSE IF elapsed <= 200 THEN 1300 - 3 * (elapsed - 100)
  ELSE Max(500, 1000 - (elapsed - 200))

\* C15: the adjusted table of a tick is the raw table with the entry of the
\* viseme current before the tick multiplied by 1.3 up to 100 ms, by a
\* linear decay from 1.3 to 1.0 up to 200 ms, and by
\* max(0.5, 1 - (elapsed - 200)/1000) after.
C15_MultiplierAsStated ==
  TickedWithFrame =>
    \A v \in VisemeSet :
      lastAdjusted[v] = IF v = lastOp.preViseme
                          THEN prevScores[v] * claimedMultiplier(now - lastOp.preStart)
                          ELSE prevScores[v] * 1000

\* C16: a tick with a frame that changes the viseme sets the dwell start to
\* now; one that leaves the viseme leaves the dwell start; and while
\* connected the dwell start is the time of the last viseme change or of
\* the connect.
C16_DwellRestartsOnChange ==
  /\ TickedWithFrame =>
       /\ analyzer.currentViseme = bestViseme(lastAdjusted)
       /\ analyzer.currentViseme # lastOp.preViseme => analyzer.visemeStartTime = now
       /\ analyzer.currentViseme = lastOp.preViseme =>
            analyzer.visemeStartTime = lastOp.preStart
  /\ isConnected(analyzer) => analyzer.visemeStartTime = lastOp.lastChange

\* a tick left the viseme, a vowel selected some time before, unchanged
C16_Witness ==
  /\ TickedWithFrame
  /\ analyzer.currentViseme = lastOp.preViseme
  /\ analyzer.currentViseme \in Vowels
  /\ analyzer.visemeStartTime > 0
  /\ now > analyzer.visemeStartTime

\* the band energies of frame at the session's sample rate
bandEnergiesOf(frame) ==
  [ i \in 1..NumBands |-> average(frame, i, analyzer.sampleRate) ]

\* C17: a tick on a frame of zero total energy leaves the history as it
\* was; a tick on a frame of nonzero total energy appends its snapshot; and
\* every stored snapshot is that of a frame of nonzero total energy.
C17_ZeroEnergyNotStored ==
  /\ (TickedWithFrame /\ ByteSum(lastOp.frame, analyzer.sampleRate) = 0) =>
       analyzer.history = lastOp.preHistory
  /\ (TickedWithFrame /\ ByteSum(lastOp.frame, analyzer.sampleRate) > 0) =>
       /\ analyzer.history # << >>
       /\ analyzer.history[Len(analyzer.history)].bands = bandEnergiesOf(lastOp.frame)
       /\ LastN(Append(lastOp.preHistory, analyzer.history[Len(analyzer.history)]),
                historySize) = analyzer.history
  /\ \A k \in 1..Len(analyzer.history) :
       \E f \in Frames :
          /\ ByteSum(f, analyzer.sampleRate) > 0
          /\ analyzer.history[k].bands = bandEnergiesOf(f)

\* a tick on the all-zero frame in a session whose history held snapshots
C17_Witness ==
  /\ TickedWithFrame /\ lastOp.zeroFrame
  /\ Len(lastOp.preHistory) >= 2
  /\ analyzer.history = lastOp.preHistory

\* C18: after a run of MaxZeroRun consecutive ticks on all-zero frames the
\* history is empty, and so the averaged features are zero.
C18_SilenceEmptiesHistory ==
  (TickedWithFrame /\ lastOp.zeroRun >= MaxZeroRun) =>
    /\ analyzer.history = << >>
    /\ getAveragedFeatures(analyzer.history).volume = 0

\* the features of the last tick's frame, extracted from the state the tick
\* started in
lastFeatures ==
  extractFeatures([analyzer EXCEPT !.history = lastOp.preHistory], lastOp.frame).features

C20_AverageOverStored ==
  \E h \in { analyzer.history } :
  \E averaged \in { getAveragedFeatures(h) } :
    /\ h = << >> =>
         /\ averaged.volume = 0 /\ averaged.centroid = 0
         /\ \A i \in 1..NumBands : averaged.bands[i] = 0
    /\ h # << >> =>
         /\ averaged.den = Len(h)
         /\ SumSeq([ k \in 1..Len(h) |->
                       h[k].volume * averaged.den - averaged.volume ]) = 0
         /\ SumSeq([ k \in 1..Len(h) |->
                       h[k].centroid * averaged.den - averaged.centroid ]) = 0
         /\ \A i \in 1..NumBands :
              SumSeq([ k \in 1..Len(h) |->
                         h[k].bands[i] * averaged.den - averaged.bands[i] ]) = 0

\* a tick has averaged a history shorter than its capacity whose snapshots
\* differ
C20_Witness ==
  /\ TickedWithFrame
  /\ Len(analyzer.history) > 2 /\ Len(analyzer.history) < historySize
  /\ analyzer.history[1].volume # analyzer.history[2].volume
  /\ getAveragedFeatures(analyzer.history).den = Len(analyzer.history)

\* computeVisemeScores has been applied to scoring.in
Scored == scoring.out # NoScores

\* C21: the raw Silence score is 1 when the averaged volume and the current
\* volume are both below 0.2, and 0 otherwise.
C21_SilenceScore ==
  Scored =>
    scoring.out["sil"] =
      IF /\ 5 * scoring.in.averaged.volume < VolUnit * scoring.in.averaged.den
         /\ 5 * scoring.in.current.volume < VolUnit
        THEN 10 ELSE 0

\* a pair scored Silence 1 with a current volume that is not zero
C21_Witness ==
  /\ Scored
  /\ scoring.out["sil"] = 10
  /\ scoring.in.current.volume > 0
  /\ scoring.in.averaged.volume > 0

\* the plosive adjustment and the centroid bonus of viseme v as C22 states
\* them, in tenths, for the scored pair
claimedPlosiveAdjustment ==
    LET cur == scoring.in.current
        avg == scoring.in.averaged
        volumeDelta == cur.volume * avg.den - avg.volume
        centroidDelta == cur.centroid * avg.den - avg.centroid
    IN  (IF 100 * volumeDelta < VolUnit * avg.den THEN -5 ELSE 0)
      + (IF 5 * avg.volume < VolUnit * avg.den THEN 2 ELSE 0)
      + (IF centroidDelta > 1000 * avg.den THEN 2 ELSE 0)

claimedCentroidBonus(v) ==
  LET c == scoring.in.current.centroid
      band6 == scoring.in.current.bands[7]
      inRange == c > 1000 /\ c < 8000
  IN CASE v = "DD" -> IF inRange /\ c > 7000 THEN 6
                      ELSE IF inRange /\ c > 4000 /\ c <= 5000 /\ 4 * band6 > ByteMax
                        THEN 14 ELSE 0
       [] v = "kk" -> IF inRange /\ c > 5000 /\ c <= 7000 THEN 6 ELSE 0
       [] v = "PP" -> IF inRange /\ c > 4000 /\ c <= 5000 THEN 10 ELSE 0
       [] v = "nn" -> IF inRange /\ c <= 4000 THEN 6 ELSE 0
       [] OTHER -> 0

\* C22: the raw scores of PP, DD, kk and nn are the shared plosive
\* adjustment plus the bonus of the one centroid branch that fires.
C22_PlosiveScores ==
  Scored =>
    /\ \A v \in {"PP", "DD", "kk", "nn"} :
         scoring.out[v] = claimedPlosiveAdjustment + claimedCentroidBonus(v)
    /\ Cardinality({ v \in {"PP", "DD", "kk", "nn"} :
                       claimedCentroidBonus(v) \in {6, 10} }) <= 1

\* a pair in the PP branch with band 6 above 0.25 and a flat volume: PP and
\* DD both carry a bonus on top of a negative adjustment
C22_Witness ==
  /\ Scored
  /\ claimedCentroidBonus("PP") = 10 /\ claimedCentroidBonus("DD") = 14
  /\ claimedPlosiveAdjustment < 0
  /\ scoring.out["DD"] > scoring.out["PP"]
  /\ scoring.out["kk"] < 0

\* the vowel score of v as C23 states the rule set, in tenths, for the
\* scored pair: the last rule that applies to v decides
claimedVowelScore(v) ==
  LET cur == scoring.in.current
      avg == scoring.in.averaged
      d == avg.den
      b1 == avg.bands[2]
      b2 == avg.bands[3]
      b3 == avg.bands[4]
      b4 == avg.bands[5]
      bandDiff == Abs(b1 - b2)
      variance == Max(Abs(b2 - b3), Max(Abs(b2 - b4), Abs(b3 - b4)))
      \* x < t/100 and x > t/100 for an averaged band x
      below(x, t) == 100 * x < t * ByteMax * d
      above(x, t) == 100 * x > t * ByteMax * d
      scored == /\ 10 * avg.volume > VolUnit * d
                /\ avg.centroid < 6000 * d
                /\ cur.centroid < 6000
                /\ (above(b3, 10) \/ above(b4, 10))
  IN IF ~scored THEN 0
     ELSE CASE v = "aa" -> IF b4 > b3 THEN (IF b3 > b2 THEN 10 ELSE 8) ELSE 0
            [] v = "I"  -> IF below(b3, 20) /\ above(b4, 30) THEN 7
                           ELSE IF b3 > b2 /\ b3 > b4 THEN 7 ELSE 0
            [] v = "U"  -> IF below(b3, 15) /\ below(b4, 15) THEN 7
                           ELSE IF below(bandDiff, 25) THEN 7 ELSE 0
            [] v = "O"  -> IF above(b3, 25) /\ above(b4, 25) THEN 7
                           ELSE IF below(variance, 25) THEN 9 ELSE 0
            [] v = "E"  -> IF b2 > b3 /\ b3 > b4 THEN 10 ELSE 0
            [] OTHER -> 0

\* C23: the five vowel scores are those of the reference rule set on the
\* averaged bands, a later rule overriding an earlier one for the same
\* viseme.
C23_VowelScores ==
  Scored => \A v \in Vowels : scoring.out[v] = claimedVowelScore(v)

\* a pair for which the refinement of O replaced the 0.9 of the earlier rule
C23_Witness ==
  /\ Scored
  /\ scoring.out["O"] = 7
  /\ \E avg \in { scoring.in.averaged } :
       /\ 4 * avg.bands[4] > ByteMax * avg.den
       /\ 4 * avg.bands[5] > ByteMax * avg.den
       /\ 4 * Max(Abs(avg.bands[3] - avg.bands[4]),
                  Max(Abs(avg.bands[3] - avg.bands[5]),
                      Abs(avg.bands[4] - avg.bands[5]))) < ByteMax * avg.den

\* C24: a tick for which no frame is available (no analyser or no data
\* buffer) leaves the viseme Silence, returns normally, and leaves the
\* history, the dwell start and the last raw score table as they were.
C24_NoFrameTick ==
  (lastOp.name = "processAudio" /\ ~lastOp.hadFrame /\ ~lastOp.preConnected) =>
    /\ ~lastOp.escaped
    /\ analyzer.currentViseme = "sil"
    /\ analyzer.history = lastOp.preHistory
    /\ analyzer.visemeStartTime = lastOp.preStart
    /\ prevScores = NoScores

\* a tick after the session was disconnected, some time after its last
\* viseme change
C24_Witness ==
  /\ lastOp.name = "processAudio" /\ ~lastOp.hadFrame /\ ~lastOp.preConnected
  /\ lastOp.prev = "disconnect"
  /\ lastOp.frame \in LoudFrames
  /\ now > analyzer.visemeStartTime

\* the visemes that no scoring rule assigns
Unmentioned == {"TH", "CH", "SS", "RR"}

\* C25: the current viseme is never TH, CH, SS or RR; the raw score table
\* of a tick has all 15 keys and 0 for those four; and the viseme a tick
\* selects has no negative adjusted score.
C25_UnmentionedNeverSelected ==
  /\ analyzer.currentViseme \notin Unmentioned
  /\ TickedWithFrame =>
       /\ DOMAIN prevScores = VisemeSet
       /\ Cardinality(DOMAIN prevScores) = 15
       /\ \A v \in Unmentioned : prevScores[v] = 0
       /\ lastAdjusted[analyzer.currentViseme] >= 0

\* a tick whose table held negative scores and that selected a viseme other
\* than Silence
C25_Witness ==
  /\ TickedWithFrame
  /\ \E v \in VisemeSet : prevScores[v] < 0
  /\ analyzer.currentViseme # "sil"
  /\ lastAdjusted["sil"] = 0

\* C26: no analyzer the store created stays connected after the store let go
\* of it, a connected analyzer is the one in webrtcLipsyncManager, and after
\* disconnectWebRTCAudio the analyzer is disconnected and
\* webrtcLipsyncManager, isAudioPlaying and audioSourceType are cleared.
C26_OneStoreAnalyzer ==
  /\ store.droppedConnected = 0
  /\ analyzer.connected => store.webrtcLipsyncManager
  /\ analyzer.openContexts <= 1
  /\ lastOp.name = "disconnectWebRTCAudio" =>
       /\ ~analyzer.connected
       /\ ~store.webrtcLipsyncManager
       /\ ~store.isAudioPlaying
       /\ store.audioSourceType = "null"

\* connectWebRTCAudio called while the stored analyzer was connected, the new
\* analyzer connecting too
C26_Witness ==
  /\ lastOp.name = "connectWebRTCAudio"
  /\ lastOp.preConnected
  /\ analyzer.connected
  /\ store.webrtcLipsyncManager

\* C27: after cleanup() called while a WebRTC analyzer is connected, the
\* analyzer is disconnected and webrtcLipsyncManager is null.
C27_CleanupDisconnectsWebRTC ==
  (lastOp.name = "cleanup" /\ lastOp.preConnected) =>
    /\ ~analyzer.connected
    /\ ~store.webrtcLipsyncManager

\* C28: after playAudio called while a WebRTC analyzer is connected, the
\* analyzer is disconnected and audioSourceType is not webrtc.
C28_PlayAudioDisconnectsWebRTC ==
  (lastOp.name = "playAudio" /\ lastOp.preConnected) =>
    /\ ~analyzer.connected
    /\ store.audioSourceType # "webrtc"

\* C29: while the hook is mounted the analyzer is connected at most once per
\* session, between sessions the patch and the track callback are active,
\* and the first audio track of every session is passed to
\* connectWebRTCAudio.
C29_EverySessionCaptured ==
  hook.mounted =>
    /\ hook.connects <= 1
    /\ hook.session = "none" => (hook.isPatchActive /\ hook.onAudioTrackCallback)
    /\ (hook.session = "active" /\ hook.tracks >= 1) => hook.connects = 1

\* C30: between operations, isConnected() holds exactly when the audio
\* context, the analyser node, the source node and the data buffer are all
\* allocated, all four are null otherwise, and every open audio context is
\* the one the analyzer references.
C30_ConnectedIffResources ==
  /\ isConnected(analyzer) <=>
       (analyzer.audioContext /\ analyzer.analyser /\
        analyzer.sourceNode /\ analyzer.dataArray)
  /\ ~isConnected(analyzer) =>
       (~analyzer.audioContext /\ ~analyzer.analyser /\
        ~analyzer.sourceNode /\ ~analyzer.dataArray)
  /\ analyzer.openContexts = (IF analyzer.audioContext THEN 1 ELSE 0)

\* a connect on a connected session that failed after it had opened a new
\* audio context
C30_Witness ==
  /\ lastOp.name = "connectStream"
  /\ lastOp.fail = "createAnalyser"
  /\ lastOp.preConnected
  /\ ~isConnected(analyzer)
  /\ analyzer.openContexts = 0

====
